---- MODULE Spec2Model ----
(***************************************************************************)
(* Model of the student score analysis system (one Tk application over a  *)
(* pandas DataFrame, a roster CSV file, an admin credential JSON file and  *)
(* a text report file).                                                    *)
(*                                                                         *)
(* Representation.                                                         *)
(*   - A text (entry content, CSV cell, password) is a sequence of one     *)
(*     character strings, so that strip, substring search and the CSV      *)
(*     reader's integer inference are computed and not assumed.            *)
(*   - A number is an exact rational [n, d] in lowest terms (pandas keeps  *)
(*     float64; the model ignores binary rounding).                        *)
(*   - Column names: the two key columns (student id, student name) are    *)
(*     implicit in every table; "total" and "average" stand for the        *)
(*     derived columns the analyses add, "s1", "s2" for subjects.          *)
(*   - Entry alphabets are restricted to digits, the letter A and a blank: *)
(*     no sign, decimal point, exponent or NaN spelling is ever typed.     *)
(*   - pandas semantics assumed: read_csv infers int64 for a column whose  *)
(*     cells are all digit strings (dropping leading zeros) and object     *)
(*     otherwise; comparing an int64 column with a str is False for ==     *)
(*     and True for != on every row; .loc assignment of a str into an      *)
(*     int64 column upcasts the column.                                    *)
(***************************************************************************)
EXTENDS Integers, Sequences, FiniteSets, TLC

\* ------------------------------------------------------------------ text
Digits == {"0", "1", "2", "3", "4", "5", "6", "7", "8", "9"}

DigitVal(c) ==
    CASE c = "0" -> 0 [] c = "1" -> 1 [] c = "2" -> 2 [] c = "3" -> 3
      [] c = "4" -> 4 [] c = "5" -> 5 [] c = "6" -> 6 [] c = "7" -> 7
      [] c = "8" -> 8 [] c = "9" -> 9

RECURSIVE lstrip(_)
lstrip(t) == IF t # <<>> /\ Head(t) = " " THEN lstrip(Tail(t)) ELSE t

RECURSIVE rstrip(_)
rstrip(t) ==
    IF t # <<>> /\ t[Len(t)] = " " THEN rstrip(SubSeq(t, 1, Len(t) - 1)) ELSE t

\* str.strip()
strip(t) == rstrip(lstrip(t))

\* the text is a non-empty run of decimal digits
IsIntText(t) == t # <<>> /\ \A i \in 1..Len(t) : t[i] \in Digits

RECURSIVE ParseInt(_)
ParseInt(t) ==
    IF t = <<>> THEN 0
    ELSE 10 * ParseInt(SubSeq(t, 1, Len(t) - 1)) + DigitVal(t[Len(t)])

RECURSIVE StripZeros(_)
StripZeros(t) == IF Len(t) > 1 /\ Head(t) = "0" THEN StripZeros(Tail(t)) ELSE t

\* str(int(t)) for a digit string: the decimal text without leading zeros
Canon(t) == StripZeros(t)

\* key in t (plain substring; no regular expression character is typed)
Contains(t, key) ==
    \E i \in 1..(Len(t) + 1) :
        /\ i + Len(key) - 1 <= Len(t)
        /\ SubSeq(t, i, i + Len(key) - 1) = key

\* --------------------------------------------------------------- numbers
RECURSIVE GCD(_, _)
GCD(a, b) == IF b = 0 THEN a ELSE GCD(b, a % b)

Abs(x) == IF x < 0 THEN -x ELSE x

Rat(n, d) ==
    LET g == GCD(Abs(n), d) IN
    IF n = 0 THEN [n |-> 0, d |-> 1] ELSE [n |-> n \div g, d |-> d \div g]

Num(i) == [n |-> i, d |-> 1]
RAdd(x, y) == Rat(x.n * y.d + y.n * x.d, x.d * y.d)
RDivInt(x, k) == Rat(x.n, x.d * k)
RLess(x, y) == x.n * y.d < y.n * x.d
RGeq(x, y) == ~RLess(x, y)

RECURSIVE RSum(_)
RSum(s) == IF s = <<>> THEN Num(0) ELSE RAdd(Head(s), RSum(Tail(s)))


\* ---------------------------------------------------------------- bounds
\* most rows a roster grows to by adding
MaxRows == 2
\* most blocks the report file grows to
MaxReport == 6
\* largest total an analysis may compute
MaxTotal == 200
\* the readings of the wall clock (update_time keeps one-second resolution)
MaxTime == 1
Times == 1..MaxTime

\* ------------------------------------------------------------- constants
FullMark == 100
DISTRIBUTION_IMG == "score_distribution.png"
SUBJECT_AVG_IMG == "subject_average.png"
PASS_RATE_IMG == "pass_rate_pie.png"
DEFAULT_ADMIN_PWD == <<"1", "2", "3", "4", "5", "6">>

\* ------------------------------------------------------------ data model
Row(id, name, sc) == [id |-> id, name |-> name, sc |-> sc]

\* a roster file: the header's columns after the two key columns, the rows
Table(cols, rows) == [cols |-> cols, rows |-> rows]

NoFile == [exists |-> FALSE, cols |-> <<>>, rows |-> <<>>]
File(t) == [exists |-> TRUE, cols |-> t.cols, rows |-> t.rows]

\* the data init_files writes when the roster file is missing, cut down to
\* the first student and the first two subjects
init_data == Table(<<"s1", "s2">>, <<Row(<<"1">>, <<"x">>, <<Num(85), Num(92)>>)>>)

\* the credential file: absent, complete, or cut short by a failed write
NoAdmin == [state |-> "absent", admin_pwd |-> <<>>, update_time |-> 0]
Corrupt == [state |-> "corrupt", admin_pwd |-> <<>>, update_time |-> 0]
Admin(pwd, t) == [state |-> "ok", admin_pwd |-> pwd, update_time |-> t]

\* the report file: absent, or the number of blocks written to it so far
NoReport == [exists |-> FALSE, blocks |-> 0]
Report(n) == [exists |-> TRUE, blocks |-> n]

\* the in-memory DataFrame: idStr is the dtype of the id column (TRUE:
\* object holding str, FALSE: int64, ids kept as their decimal text);
\* dirty marks cells that hold entry text after an interrupted edit
DataFrame(idStr, cols, rows, dirty) ==
    [idStr |-> idStr, cols |-> cols, rows |-> rows, dirty |-> dirty]

EmptyFrame == DataFrame(TRUE, <<>>, <<>>, FALSE)

VARIABLES
    running,        \* the application process is up
    csvFile,        \* DEFAULT_CSV_PATH
    adminFile,      \* ADMIN_CONFIG_PATH
    reportFile,     \* REPORT_PATH
    df,             \* self.df
    subject_cols,   \* self.subject_cols
    tree,           \* ids of the rows shown in self.tree
    op,             \* the handler that ran last
    msgs,           \* the message boxes it showed, in order
    arg,            \* the texts it read from entries and prompts
    result,         \* the score bands it computed, if it computed any
    auth,           \* outcome of its password check: "none", "ok", "fail"
    rotated,        \* old and new password of the last completed update
    drawn           \* the chart files it wrote with plt.savefig

vars == <<running, csvFile, adminFile, reportFile, df, subject_cols, tree,
          op, msgs, arg, result, auth, rotated, drawn>>

\* ------------------------------------------------------------ file layer
\* pandas.read_csv on the roster file: an id column of digit strings only
\* becomes int64 (leading zeros are lost), any other id column stays str
load_score_data(f) ==
    LET allInt == f.rows # <<>> /\ \A i \in 1..Len(f.rows) : IsIntText(f.rows[i].id)
    IN  DataFrame(~allInt, f.cols,
                  [i \in 1..Len(f.rows) |->
                      Row(IF allInt THEN Canon(f.rows[i].id) ELSE f.rows[i].id,
                          f.rows[i].name, f.rows[i].sc)],
                  FALSE)

\* DataFrame.to_csv: every column of the frame, every row, cells as text
save_score_data(d) == File(Table(d.cols, d.rows))

\* variant: any entry passes once a credential file exists
verify_admin_pwd_any(input_pwd) == adminFile.state = "ok"

\* verify_admin_pwd: exact comparison with the stored secret; an absent or
\* unreadable credential file raises inside and yields False
verify_admin_pwd(input_pwd) ==
    adminFile.state = "ok" /\ input_pwd = adminFile.admin_pwd

\* fill_tree_view: one tree row per frame row, first value the id
fill_tree_view(d) == [i \in 1..Len(d.rows) |-> d.rows[i].id]

\* --------------------------------------------------------- frame helpers
ColIdx(cols, c) == CHOOSE i \in 1..Len(cols) : cols[i] = c
HasCol(d, c) == \E i \in 1..Len(d.cols) : d.cols[i] = c
Cell(d, r, c) == d.rows[r].sc[ColIdx(d.cols, c)]

\* df[subj].sum(axis=1) and df[subj].mean(axis=1) for row r
RowSum(d, r, subj) == RSum([j \in 1..Len(subj) |-> Cell(d, r, subj[j])])
RowMean(d, r, subj) == RDivInt(RowSum(d, r, subj), Len(subj))

\* df[c] = col: overwrite the column in place, or append it as the last one
SetCol(d, c, col) ==
    IF HasCol(d, c)
    THEN [d EXCEPT !.rows = [r \in 1..Len(d.rows) |->
              [d.rows[r] EXCEPT !.sc[ColIdx(d.cols, c)] = col[r]]]]
    ELSE [d EXCEPT !.cols = Append(d.cols, c),
                   !.rows = [r \in 1..Len(d.rows) |->
              [d.rows[r] EXCEPT !.sc = Append(d.rows[r].sc, col[r])]]]

WithTotal(d, subj) == SetCol(d, "total", [r \in 1..Len(d.rows) |-> RowSum(d, r, subj)])
WithAverage(d, subj) ==
    SetCol(d, "average", [r \in 1..Len(d.rows) |-> RowMean(d, r, subj)])

\* df["total"].max()
RECURSIVE RMax(_)
RMax(s) ==
    IF Len(s) = 1 THEN s[1]
    ELSE LET m == RMax(Tail(s)) IN IF RLess(Head(s), m) THEN m ELSE Head(s)

Totals(d) == [r \in 1..Len(d.rows) |-> Cell(d, r, "total")]

\* ----------------------------------------------------- history recording
Computed(o, m, a, au, res) ==
    op' = o /\ msgs' = m /\ arg' = a /\ auth' = au /\ result' = res

\* a handler that computes no bands and draws no chart
Shown(o, m, a, au) == Computed(o, m, a, au, <<>>) /\ drawn' = {}

\* the second half of every roster change: save_score_data (which may fail
\* and is not checked by its callers), then refresh_tree_view
SaveAndRefresh(d, saveOk) ==
    /\ csvFile' = IF saveOk THEN save_score_data(d) ELSE csvFile
    /\ df' = load_score_data(csvFile')
    /\ subject_cols' = df'.cols
    /\ tree' = fill_tree_view(df')

SaveMsg(saveOk) == IF saveOk THEN "saved" ELSE "save_failed"

\* ------------------------------------------------------------ life cycle
\* init_files: each of the three files is created only when it is missing
init_files(t) ==
    /\ csvFile' = IF csvFile.exists THEN csvFile ELSE File(init_data)
    /\ adminFile' = IF adminFile.state = "absent"
                    THEN Admin(DEFAULT_ADMIN_PWD, t) ELSE adminFile
    /\ reportFile' = IF reportFile.exists THEN reportFile ELSE Report(1)

\* program entry: init_files, then ScoreAnalysisSystem.__init__
Start ==
    /\ ~running
    /\ running' = TRUE
    /\ \E t \in Times : init_files(t)
    /\ df' = load_score_data(csvFile')
    /\ subject_cols' = df'.cols
    /\ tree' = fill_tree_view(df')
    /\ Shown("start", <<>>, <<>>, "none")
    /\ UNCHANGED rotated

\* root.quit: the session state is gone, the files stay
Quit ==
    /\ running
    /\ running' = FALSE
    /\ df' = EmptyFrame
    /\ subject_cols' = <<>>
    /\ tree' = <<>>
    /\ Shown("quit", <<>>, <<>>, "none")
    /\ UNCHANGED <<csvFile, adminFile, reportFile, rotated>>

refresh_tree_view ==
    /\ running
    /\ df' = load_score_data(csvFile)
    /\ subject_cols' = df'.cols
    /\ tree' = fill_tree_view(df')
    /\ Shown("refresh_tree_view", <<"refreshed">>, <<>>, "none")
    /\ UNCHANGED <<running, csvFile, adminFile, reportFile, rotated>>

\* the rows whose id (as text) or name contains the key
search(d, key) ==
    LET Hit(r) == Contains(r.id, key) \/ Contains(r.name, key)
    IN  SelectSeq(d.rows, Hit)

search_student(I) ==
    /\ running
    /\ \E raw \in I.keys :
        LET search_key == strip(raw)
            filtered == search(df, search_key)
        IN  IF search_key = <<>>
            THEN /\ tree' = tree
                 /\ Shown("search_student", <<"warn_no_key">>, <<>>, "none")
            ELSE IF filtered # <<>>
            THEN /\ tree' = [i \in 1..Len(filtered) |-> filtered[i].id]
                 /\ Shown("search_student", <<>>, <<>>, "none")
            ELSE /\ tree' = fill_tree_view(df)
                 /\ Shown("search_student", <<"not_found">>, <<>>, "none")
    /\ UNCHANGED <<running, csvFile, adminFile, reportFile, df, subject_cols,
                   rotated>>

\* ------------------------------------------------------------------ add
\* float(val) succeeds (over the entry alphabet: a run of digits)
IsNumber(val) == IsIntText(val)

\* the entry texts of a window with n score entries, after strip()
Entries(ids, names, scores, n) ==
    { <<strip(i), strip(nm)>> \o sc :
        i \in ids, nm \in names, sc \in [1..n -> scores] }

\* the cells one entered row holds once written to the roster file
EnteredRow(values) ==
    Row(values[1], values[2],
        [j \in 1..(Len(values) - 2) |-> Num(ParseInt(values[j + 2]))])

\* df["id"].astype(str).tolist()
IdTexts(d) == {d.rows[i].id : i \in 1..Len(d.rows)}

\* the duplicate check of confirm_add
IdTaken(d, id) == id \in IdTexts(d)

\* add_student and its confirm_add: the dialog has one entry per label of
\* ["id", "name"] + subject_cols and is confirmed before any other handler
\* of the main window runs
add_student(I) ==
    /\ running
    /\ \E values \in Entries(I.ids, I.names, I.scores, Len(subject_cols)),
          saveOk \in I.saves :
        LET Keep == UNCHANGED <<csvFile, df, subject_cols, tree>> IN
        IF values[1] = <<>> \/ values[2] = <<>>
        THEN Keep /\ Shown("add_student", <<"warn_blank">>, <<>>, "none")
        ELSE IF \E j \in 3..Len(values) : ~IsNumber(values[j])
        THEN Keep /\ Shown("add_student", <<"err_score">>, <<>>, "none")
        ELSE IF IdTaken(df, values[1])
        THEN Keep /\ Shown("add_student", <<"err_duplicate">>, <<>>, "none")
        ELSE IF Len(values) # 2 + Len(df.cols)
        THEN \* pd.Series(values, index=df.columns) raises ValueError
             Keep /\ Shown("add_student", <<"exception">>, <<>>, "none")
        ELSE /\ Len(df.rows) < MaxRows
             /\ SaveAndRefresh([df EXCEPT !.rows = Append(@, EnteredRow(values))],
                               saveOk)
             /\ Shown("add_student", <<SaveMsg(saveOk), "refreshed", "add_ok">>,
                      values, "none")
    /\ UNCHANGED <<running, adminFile, reportFile, rotated>>

\* ----------------------------------------------------------------- edit
\* the outcome of a password prompt: cancelled, or the text typed
NoPwd == <<"cancel">>
Prompts(pwds) == pwds \cup {NoPwd}

\* variant: any non-blank entry opens the gate
PwdOk_nonempty(pwd) == pwd # NoPwd /\ pwd # <<>>

\* not (not pwd or not verify_admin_pwd(pwd))
PwdOk(pwd) == pwd # NoPwd /\ pwd # <<>> /\ verify_admin_pwd(pwd)

\* df[df["id"] == student_id]: a str never equals a cell of an int64 column
Matches(d, student_id) ==
    {i \in 1..Len(d.rows) : d.idStr /\ d.rows[i].id = student_id}

\* for i, col in enumerate(df.columns): df.loc[idx, col] = values[i]
\* the first k columns of row idx are overwritten (k = all of them when
\* the entries suffice)
Assign(d, idx, values, k) ==
    [d EXCEPT !.rows[idx] =
        Row(IF k >= 1 THEN values[1] ELSE @.id,
            IF k >= 2 THEN values[2] ELSE @.name,
            [j \in 1..Len(@.sc) |->
                IF j + 2 <= k THEN Num(ParseInt(values[j + 2])) ELSE @.sc[j]])]

\* edit_student and its confirm_edit: needs a selected tree row, whose id
\* fills the read-only id entry; the dialog is confirmed before any other
\* handler of the main window runs
edit_student(I) ==
    /\ running
    /\ \/ /\ UNCHANGED <<csvFile, df, subject_cols, tree>>
          /\ Shown("edit_student", <<"warn_no_selection">>, <<>>, "none")
       \/ \E k \in 1..Len(tree), pwd \in Prompts(I.pwds), saveOk \in I.saves :
          \E values \in Entries({tree[k]}, I.names, I.scores, Len(subject_cols)) :
          LET Keep == UNCHANGED <<csvFile, df, subject_cols, tree>>
              a == <<values[1], pwd>>
              ncols == 2 + Len(df.cols)
          IN
          IF ~PwdOk(pwd)
          THEN Keep /\ Shown("edit_student", <<"err_password">>, <<>>, "fail")
          ELSE IF values[2] = <<>>
          THEN Keep /\ Shown("edit_student", <<"warn_blank">>, a, "ok")
          ELSE IF \E j \in 3..Len(values) : ~IsNumber(values[j])
          THEN Keep /\ Shown("edit_student", <<"err_score">>, a, "ok")
          ELSE IF Matches(df, values[1]) = {}
          THEN \* .index[0] of an empty selection raises IndexError
               Keep /\ Shown("edit_student", <<"exception">>, a, "ok")
          ELSE LET idx == CHOOSE i \in Matches(df, values[1]) :
                              \A j \in Matches(df, values[1]) : i <= j
               IN
               IF Len(values) < ncols
               THEN \* values[i] raises IndexError after Len(values) columns
                    /\ df' = [Assign(df, idx, values, Len(values))
                                 EXCEPT !.dirty = TRUE]
                    /\ UNCHANGED <<csvFile, subject_cols, tree>>
                    /\ Shown("edit_student", <<"exception">>, a, "ok")
               ELSE /\ SaveAndRefresh(Assign(df, idx, values, ncols), saveOk)
                    /\ Shown("edit_student",
                             <<SaveMsg(saveOk), "refreshed", "edit_ok">>, a, "ok")
    /\ UNCHANGED <<running, adminFile, reportFile, rotated>>

\* --------------------------------------------------------------- delete
\* df[df["id"] != student_id]
Without(d, student_id) ==
    LET Stays(r) == ~(d.idStr /\ r.id = student_id)
    IN  [d EXCEPT !.rows = SelectSeq(d.rows, Stays)]

delete_student(I) ==
    /\ running
    /\ \/ /\ UNCHANGED <<csvFile, df, subject_cols, tree>>
          /\ Shown("delete_student", <<"warn_no_selection">>, <<>>, "none")
       \/ /\ tree # <<>>
          /\ UNCHANGED <<csvFile, df, subject_cols, tree>>
          /\ Shown("delete_student", <<"declined">>, <<>>, "none")
       \/ \E k \in 1..Len(tree), pwd \in Prompts(I.pwds), saveOk \in I.saves :
          LET student_id == tree[k] IN
          IF ~PwdOk(pwd)
          THEN /\ UNCHANGED <<csvFile, df, subject_cols, tree>>
               /\ Shown("delete_student", <<"err_password">>, <<>>, "fail")
          ELSE /\ SaveAndRefresh(Without(df, student_id), saveOk)
               /\ Shown("delete_student",
                        <<SaveMsg(saveOk), "refreshed", "delete_ok">>,
                        <<student_id, pwd>>, "ok")
    /\ UNCHANGED <<running, adminFile, reportFile, rotated>>

\* --------------------------------------------------------------- import
\* what the file dialog of import_file can come back with, beside a table
ImportFailures == {"cancel", "bad_format", "unreadable", "no_key_columns"}

import_file(I) ==
    /\ running
    /\ \/ \E choice \in ImportFailures :
          /\ UNCHANGED <<csvFile, df, subject_cols, tree>>
          /\ Shown("import_file",
                   CASE choice = "cancel" -> <<>>
                     [] choice = "bad_format" -> <<"err_format">>
                     [] choice = "unreadable" -> <<"err_import">>
                     [] choice = "no_key_columns" -> <<"err_columns">>,
                   <<>>, "none")
       \/ \E t \in I.tables, saveOk \in I.saves :
          /\ SaveAndRefresh(load_score_data(File(t)), saveOk)
          /\ Shown("import_file",
                   <<SaveMsg(saveOk), "refreshed", "import_ok">>, <<>>, "none")
    /\ UNCHANGED <<running, adminFile, reportFile, rotated>>

\* ------------------------------------------------------------- analysis
\* variant: the report file is opened for writing, not for appending
Rewritten(k) == [reportFile EXCEPT !.blocks = k]

\* the report file after an analysis appended k blocks to it
Appended(k) == [reportFile EXCEPT !.blocks = @ + k]
Room(k) == reportFile.blocks + k <= MaxReport

\* variant: only a frame without columns counts as empty
empty_unframed(d) == d.cols = <<>>

\* DataFrame.empty: no row (or no column)
empty(d) == d.rows = <<>>

\* arithmetic over cells that hold entry text raises TypeError
Raises(d, needsScores) == d.dirty /\ needsScores

basic_frame(d, subj) == WithAverage(WithTotal(d, subj), subj)
distribution_frame(d, subj) == IF HasCol(d, "total") THEN d ELSE WithTotal(d, subj)
pass_rate_frame(d, subj) == IF HasCol(d, "average") THEN d ELSE WithAverage(d, subj)

\* the totals stay below the model's cap
Capped(d) == \A r \in 1..Len(d.rows) : ~RLess(Num(MaxTotal), Cell(d, r, "total"))

\* f"{x:.0f}" of full_score * tenths / 10, read back by float()
Bound(full_score, tenths) == (full_score * tenths) \div 10

\* variant: the bands always scale with the number of subjects
score_ranges_scaled(d, subj) ==
    LET full_score == Len(subj) * FullMark
    IN  << <<0, Bound(full_score, 6)>>,
           <<Bound(full_score, 6), Bound(full_score, 7)>>,
           <<Bound(full_score, 7), Bound(full_score, 8)>>,
           <<Bound(full_score, 8), Bound(full_score, 9)>>,
           <<Bound(full_score, 9), Bound(full_score, 10)>> >>

\* score_ranges of score_distribution_analysis, as (low, high) pairs
score_ranges(d, subj) ==
    LET max_total == RMax(Totals(d))
        full_score == IF RLess(Num(FullMark), max_total)
                      THEN Len(subj) * FullMark ELSE FullMark
    IN  << <<0, Bound(full_score, 6)>>,
           <<Bound(full_score, 6), Bound(full_score, 7)>>,
           <<Bound(full_score, 7), Bound(full_score, 8)>>,
           <<Bound(full_score, 8), Bound(full_score, 9)>>,
           <<Bound(full_score, 9), Bound(full_score, 10)>> >>

\* (df["total"] >= min_score) & (df["total"] < max_score)
InBand(total, rng) == RGeq(total, Num(rng[1])) /\ RLess(total, Num(rng[2]))

score_counts(d, ranges) ==
    [b \in 1..Len(ranges) |->
        Cardinality({r \in 1..Len(d.rows) : InBand(Cell(d, r, "total"), ranges[b])})]

\* zip(score_ranges, score_counts)
Bands(d, subj) ==
    LET ranges == score_ranges(d, subj)
        counts == score_counts(d, ranges)
    IN  [b \in 1..Len(ranges) |->
            [low |-> ranges[b][1], high |-> ranges[b][2], count |-> counts[b]]]

AnalysisFrame ==
    UNCHANGED <<running, csvFile, adminFile, subject_cols, tree, rotated>>

basic_analysis ==
    /\ running
    /\ IF empty(df)
       THEN /\ UNCHANGED <<df, reportFile>>
            /\ Shown("basic_analysis", <<"warn_no_data">>, <<>>, "none")
       ELSE IF Raises(df, TRUE)
       THEN /\ UNCHANGED <<df, reportFile>>
            /\ Shown("basic_analysis", <<"exception">>, <<>>, "none")
       ELSE /\ Room(1)
            /\ Capped(basic_frame(df, subject_cols))
            /\ df' = basic_frame(df, subject_cols)
            /\ reportFile' = Appended(1)
            /\ Shown("basic_analysis", <<"basic_done">>, <<>>, "none")
    /\ AnalysisFrame

score_distribution_analysis ==
    /\ running
    /\ IF empty(df)
       THEN /\ UNCHANGED <<df, reportFile>>
            /\ Shown("score_distribution_analysis", <<"warn_no_data">>, <<>>, "none")
       ELSE IF Raises(df, ~HasCol(df, "total"))
       THEN /\ UNCHANGED <<df, reportFile>>
            /\ Shown("score_distribution_analysis", <<"exception">>, <<>>, "none")
       ELSE /\ Room(1)
            /\ Capped(distribution_frame(df, subject_cols))
            /\ df' = distribution_frame(df, subject_cols)
            /\ reportFile' = Appended(1)
            /\ Computed("score_distribution_analysis", <<"distribution_done">>,
                        <<>>, "none", Bands(df', subject_cols))
            /\ drawn' = {DISTRIBUTION_IMG}
    /\ AnalysisFrame

subject_average_analysis ==
    /\ running
    /\ IF empty(df)
       THEN /\ UNCHANGED <<df, reportFile>>
            /\ Shown("subject_average_analysis", <<"warn_no_data">>, <<>>, "none")
       ELSE IF Raises(df, TRUE)
       THEN /\ UNCHANGED <<df, reportFile>>
            /\ Shown("subject_average_analysis", <<"exception">>, <<>>, "none")
       ELSE /\ Room(1)
            /\ UNCHANGED df
            /\ reportFile' = Appended(1)
            /\ Computed("subject_average_analysis", <<"average_done">>,
                        <<>>, "none", <<>>)
            /\ drawn' = {SUBJECT_AVG_IMG}
    /\ AnalysisFrame

pass_rate_analysis ==
    /\ running
    /\ IF empty(df)
       THEN /\ UNCHANGED <<df, reportFile>>
            /\ Shown("pass_rate_analysis", <<"warn_no_data">>, <<>>, "none")
       ELSE IF Raises(df, TRUE)
       THEN /\ UNCHANGED <<df, reportFile>>
            /\ Shown("pass_rate_analysis", <<"exception">>, <<>>, "none")
       ELSE /\ Room(1)
            /\ df' = pass_rate_frame(df, subject_cols)
            /\ reportFile' = Appended(1)
            /\ Computed("pass_rate_analysis", <<"pass_rate_done">>,
                        <<>>, "none", <<>>)
            /\ drawn' = {PASS_RATE_IMG}
    /\ AnalysisFrame

\* the four analyses in order on the same frame, then the closing block
generate_comprehensive_report ==
    /\ running
    /\ IF empty(df)
       THEN /\ UNCHANGED <<df, reportFile>>
            /\ Shown("generate_comprehensive_report", <<"warn_no_data">>, <<>>, "none")
       ELSE IF Raises(df, TRUE)
       THEN /\ UNCHANGED <<df, reportFile>>
            /\ Shown("generate_comprehensive_report", <<"exception">>, <<>>, "none")
       ELSE LET d1 == basic_frame(df, subject_cols)
                d2 == distribution_frame(d1, subject_cols)
                d4 == pass_rate_frame(d2, subject_cols)
            IN  /\ Room(5)
                /\ Capped(d1)
                /\ df' = d4
                /\ reportFile' = Appended(5)
                /\ Computed("generate_comprehensive_report",
                            <<"basic_done", "distribution_done", "average_done",
                              "pass_rate_done", "report_done">>,
                            <<>>, "none", Bands(d2, subject_cols))
                /\ drawn' = {DISTRIBUTION_IMG, SUBJECT_AVG_IMG, PASS_RATE_IMG}
    /\ AnalysisFrame

\* ------------------------------------------------------ password update
\* how the rewrite of the credential file ends: the file is opened with
\* mode "w" (emptied) and then filled by json.dump
WriteOutcomes == {"written", "interrupted"}

\* variant: the rewrite keeps the secret already stored
new_config_stale(new_pwd, t) == Admin(adminFile.admin_pwd, t)

\* config["admin_pwd"] = new_pwd; config["update_time"] = now
new_config(new_pwd, t) == Admin(new_pwd, t)

confirm_update(I) ==
    /\ running
    /\ \E old_raw \in I.pwds, new_raw \in I.pwds :
        LET old_pwd == strip(old_raw)
            new_pwd == strip(new_raw)
            a == <<old_pwd, new_pwd>>
        IN
        IF old_pwd = <<>> \/ new_pwd = <<>>
        THEN /\ UNCHANGED <<adminFile, rotated>>
             /\ Shown("confirm_update", <<"warn_blank">>, <<>>, "none")
        ELSE IF ~verify_admin_pwd(old_pwd)
        THEN /\ UNCHANGED <<adminFile, rotated>>
             /\ Shown("confirm_update", <<"err_old_password">>, a, "fail")
        ELSE \E t \in Times, w \in I.writes :
             IF w = "written"
             THEN /\ adminFile' = new_config(new_pwd, t)
                  /\ rotated' = a
                  /\ Shown("confirm_update", <<"password_ok">>, a, "ok")
             ELSE /\ adminFile' = Corrupt
                  /\ rotated' = <<>>
                  /\ Shown("confirm_update", <<"exception">>, a, "ok")
    /\ UNCHANGED <<running, csvFile, reportFile, df, subject_cols, tree>>

\* ------------------------------------------------------------ the system
\* the files a previous session may have left behind
StartFiles ==
    { NoFile,
      File(Table(<<"s1">>, <<Row(<<"A">>, <<"x">>, <<Num(100)>>)>>)) }

InitWith(csvs, admins, reports) ==
    /\ running = FALSE
    /\ csvFile \in csvs
    /\ adminFile \in admins
    /\ reportFile \in reports
    /\ df = EmptyFrame
    /\ subject_cols = <<>>
    /\ tree = <<>>
    /\ op = "none"
    /\ msgs = <<>>
    /\ arg = <<>>
    /\ result = <<>>
    /\ auth = "none"
    /\ rotated = <<>>
    /\ drawn = {}

\* every handler, over the inputs I
NextWith(I) ==
    \/ Start
    \/ Quit
    \/ refresh_tree_view
    \/ search_student(I)
    \/ import_file(I)
    \/ add_student(I)
    \/ edit_student(I)
    \/ delete_student(I)
    \/ confirm_update(I)
    \/ basic_analysis
    \/ score_distribution_analysis
    \/ subject_average_analysis
    \/ pass_rate_analysis
    \/ generate_comprehensive_report

\* the whole application over a small set of inputs
Inputs ==
    [ ids    |-> {<<"A">>},
      names  |-> {<<"x">>},
      scores |-> {<<"0">>},
      pwds   |-> {DEFAULT_ADMIN_PWD, <<"p">>, <<"p", " ">>, <<>>},
      keys   |-> {<<"A">>},
      tables |-> {Table(<<"s1", "s2">>,
                        <<Row(<<"A">>, <<"x">>, <<Num(0), Num(100)>>)>>)},
      saves  |-> {TRUE},
      writes |-> WriteOutcomes ]

Init == InitWith(StartFiles, {NoAdmin, Admin(<<"p">>, 0)}, {NoReport, Report(1)})
Next == NextWith(Inputs)
Spec == Init /\ [][Next]_vars

\* the roster handlers over more ids and names and with failing saves; of
\* the analyses only the one that adds both derived columns, and a report
\* file that earlier sessions have filled up to two blocks below the cap
RosterInputs ==
    [ ids    |-> {<<"1">>, <<"0", "1">>, <<"A">>},
      names  |-> {<<"x">>, <<"A">>},
      scores |-> {<<"0">>, <<>>},
      pwds   |-> {DEFAULT_ADMIN_PWD, <<"p">>},
      keys   |-> {<<"1">>, <<"A">>, <<"z">>, <<" ">>},
      tables |-> {Table(<<"s1">>,
                        <<Row(<<"1">>, <<"x">>, <<Num(100)>>),
                          Row(<<"1">>, <<"A">>, <<Num(0)>>)>>)},
      saves  |-> BOOLEAN,
      writes |-> {"written"} ]

InitRoster == InitWith(StartFiles, {NoAdmin}, {Report(MaxReport - 2)})

NextRoster ==
    \/ Start
    \/ Quit
    \/ refresh_tree_view
    \/ search_student(RosterInputs)
    \/ import_file(RosterInputs)
    \/ add_student(RosterInputs)
    \/ edit_student(RosterInputs)
    \/ delete_student(RosterInputs)
    \/ basic_analysis

SpecRoster == InitRoster /\ [][NextRoster]_vars

\* ----------------------------------------------------------- properties
AnalysisOps ==
    {"basic_analysis", "score_distribution_analysis", "subject_average_analysis",
     "pass_rate_analysis", "generate_comprehensive_report"}

\* C1: no analysis operation changes the session table: its columns, rows
\* and values after the operation are those before it
AnalysisLeavesRoster == [][op' \in AnalysisOps => df' = df]_vars

RECURSIVE CountSum(_)
CountSum(bands) ==
    IF bands = <<>> THEN 0 ELSE Head(bands).count + CountSum(Tail(bands))

\* C2: the band counts of a score-band analysis sum to the number of
\* students, a student at the top band's upper bound included
BandsCountEveryStudent == result # <<>> => CountSum(result) = Len(df.rows)

\* the bounds of band b when the bands are cut from full_score
LowOf(full_score, b) == IF b = 1 THEN 0 ELSE (full_score * (4 + b) * 10) \div 100
HighOf(full_score, b) == (full_score * (5 + b) * 10) \div 100
CutFrom(bands, full_score) ==
    /\ Len(bands) = 5
    /\ \A b \in 1..5 : /\ bands[b].low = LowOf(full_score, b)
                       /\ bands[b].high = HighOf(full_score, b)

SomeTotalAbove100 ==
    \E r \in 1..Len(df.rows) : Cell(df, r, "total").n > 100 * Cell(df, r, "total").d

GatedByPassword ==
    [][op' \in {"edit_student", "delete_student"} =>
          /\ (df' # df \/ csvFile' # csvFile) =>
                /\ adminFile.state = "ok"
                /\ Len(arg') = 2
                /\ arg'[2] = adminFile.admin_pwd
          /\ auth' = "fail" => (df' = df /\ csvFile' = csvFile)]_vars

\* a delete removed its row under a secret set by an earlier update
DeleteAfterRotationSeen ==
    /\ op = "delete_student"
    /\ auth = "ok"
    /\ rotated # <<>>
    /\ arg[2] # DEFAULT_ADMIN_PWD
    /\ arg[1] \notin IdTexts(df)

\* C5: the credential file changes only in a password update whose old
\* password is the stored secret (or when start-up finds no such file); an
\* update with another old password changes nothing and reports the error
SecretChangesOnlyByUpdate ==
    [][/\ adminFile' # adminFile =>
            \/ op' = "start" /\ adminFile.state = "absent"
            \/ /\ op' = "confirm_update"
               /\ adminFile.state = "ok"
               /\ Len(arg') = 2
               /\ arg'[1] = adminFile.admin_pwd
       /\ (op' = "confirm_update" /\ Len(arg') = 2
              /\ arg'[1] # adminFile.admin_pwd) =>
            (adminFile' = adminFile /\ msgs' = <<"err_old_password">>)]_vars

\* an update with a wrong old password was refused
WrongOldPasswordSeen ==
    /\ op = "confirm_update"
    /\ Len(arg) = 2
    /\ adminFile.state = "ok"
    /\ arg[1] # adminFile.admin_pwd
    /\ arg[2] # adminFile.admin_pwd

\* C6 as stated: from a completed update to the next one, verify accepts
\* the new password and refuses the old one
RotateReplacesSecret ==
    rotated # <<>> => verify_admin_pwd(rotated[2]) /\ ~verify_admin_pwd(rotated[1])

\* C6 amended: verify accepts the new password, and refuses the old one
\* when the two differ
RotateReplacesSecretUnlessSame ==
    rotated # <<>> =>
        /\ verify_admin_pwd(rotated[2])
        /\ rotated[1] # rotated[2] => ~verify_admin_pwd(rotated[1])

\* another handler ran after an update to a different password
RotationOutlivedSeen ==
    rotated # <<>> /\ rotated[1] # rotated[2] /\ op = "delete_student" /\ auth = "fail"

\* C7: whatever happens to a password update, the credential file holds a
\* complete credential
CredentialFileComplete == running => adminFile.state = "ok"


\* C8: no two records of the session table carry the same student id
IdsUnique ==
    \A i, j \in 1..Len(df.rows) : df.rows[i].id = df.rows[j].id => i = j

\* C9: after a delete that saved and reported success, neither the session
\* table nor the roster file holds a record with the deleted student's id
DeleteRemovesRecord ==
    (op = "delete_student" /\ msgs = <<"saved", "refreshed", "delete_ok">>) =>
        /\ arg[1] \notin IdTexts(df)
        /\ arg[1] \notin IdTexts(load_score_data(csvFile))

\* the records a search for the key returns that carry exactly that id
FoundById(d, key) ==
    LET Same(r) == r.id = key IN SelectSeq(search(d, key), Same)

\* C10: after an add that saved and reported success, a search for the
\* entered id finds one record with that id, and it equals the entered one
AddThenFind ==
    (op = "add_student" /\ msgs = <<"saved", "refreshed", "add_ok">>) =>
        FoundById(df, arg[1]) = <<EnteredRow(arg)>>

\* C11: an analysis handler started on a roster without rows only shows the
\* no-data warning: it computes no bands, appends nothing to the report
\* file, writes no chart and leaves the table as it was
EmptyRosterAnalysisFails ==
    [][(op' \in AnalysisOps /\ df.rows = <<>>) =>
        /\ msgs' = <<"warn_no_data">>
        /\ result' = <<>>
        /\ drawn' = {}
        /\ reportFile' = reportFile
        /\ df' = df]_vars

\* the comprehensive report has been refused on a roster that lost its last row
EmptyRosterRefusedSeen ==
    /\ op = "generate_comprehensive_report"
    /\ msgs = <<"warn_no_data">>
    /\ df.rows = <<>>
    /\ df.cols # <<>>
    /\ csvFile.exists

Completed(m) == m # <<>> /\ m # <<"warn_no_data">> /\ m # <<"exception">>

\* C12: the report file only grows: once it exists it keeps existing and no
\* step takes a block away from it, it is created (with its heading block)
\* only by a start-up that finds it missing, and an analysis that completes
\* appends one block per result it announces
ReportAppendOnly ==
    [][/\ reportFile.exists =>
            (reportFile'.exists /\ reportFile'.blocks >= reportFile.blocks)
       /\ (~reportFile.exists /\ reportFile' # reportFile) =>
            (op' = "start" /\ reportFile' = Report(1))
       /\ (op' \in AnalysisOps /\ Completed(msgs')) =>
            reportFile'.blocks = reportFile.blocks + Len(msgs')]_vars

\* a comprehensive report has been appended behind the heading block
ReportGrownSeen ==
    /\ op = "generate_comprehensive_report"
    /\ Completed(msgs)
    /\ reportFile.blocks = 1 + 5

RosterOps == {"add_student", "edit_student", "delete_student", "import_file"}

FailureMsgs ==
    {"warn_blank", "err_score", "err_duplicate", "err_password",
     "warn_no_selection", "err_format", "err_import", "err_columns",
     "exception", "save_failed"}

Failed(m) == m # <<>> /\ m[1] \in FailureMsgs

\* C13: an add, edit, delete or import that fails (validation error, missing
\* columns, id not found, exception while applying the change, save
\* failure) leaves the in-memory table exactly as it was before
FailedChangeKeepsRoster ==
    [][(op' \in RosterOps /\ Failed(msgs')) => df' = df]_vars

Derived(cols) == \E i \in 1..Len(cols) : cols[i] \in {"total", "average"}

\* C14: within a session no handler but import_file changes the subject
\* list or the columns of the roster file, and the derived total and average
\* columns never reach the roster file or the subject list
SubjectsChangeOnlyByImport ==
    [][(running /\ running' /\ op' # "import_file") =>
        /\ subject_cols' = subject_cols
        /\ csvFile'.cols = csvFile.cols
        /\ ~Derived(subject_cols')
        /\ ~Derived(csvFile'.cols)]_vars

SuccessMsgs == {"add_ok", "edit_ok", "delete_ok"}

\* C15: an add, edit or delete that shows its success message has rewritten
\* the roster file: its save_score_data call did not fail
SuccessOnlyAfterSave ==
    (op \in {"add_student", "edit_student", "delete_student"}
        /\ msgs # <<>> /\ msgs[Len(msgs)] \in SuccessMsgs)
    => msgs[1] = "saved"

====
